---- MODULE Spec2Model ----
(***************************************************************************)
(* Resource-link resolution and reconciliation of the cloud plugin:        *)
(* the direct link / unlink workflow (commands/link.rs), the deploy-time   *)
(* orchestration and its resolution strategies (commands/deploy/           *)
(* database.rs) and the link helpers of commands/sqlite.rs, run against a  *)
(* remote catalog that stores what it is told.                             *)
(***************************************************************************)
EXTENDS Integers, Sequences, FiniteSets, TLC

\* ------------------------------------------------------------------ bounds
\* At most MaxDbs databases and at most MaxLinks links exist in the catalog.
MaxDbs == 2
MaxLinks == 2

\* ------------------------------------------------------------- value sets
\* Applications. client_and_app_id maps an application name to its id one to
\* one, so one token stands for both the name and the id.
Apps == {"app", "other"}
Labels == {"email", "logs"}
\* Database names are opaque and interchangeable: the catalog lists the
\* databases in creation order and the model names them in that order. One
\* name more than can exist is in use, so that a name can always be absent.
DbPool == << "db1", "db2", "db3", "db4", "db5", "db6" >>
DbNames == {DbPool[i] : i \in 1..(MaxDbs + 1)}

\* Option<String>::None of ResourceLabel.app_name.
NoName == "None"
\* Absent argument of a logged call.
Nil == "-"

\* cloud_openapi ResourceLabel {app_id, label, app_name}.
ResourceLabel(app_id, label, app_name) ==
    [app_id |-> app_id, label |-> label, app_name |-> app_name]

NoRL == ResourceLabel(Nil, Nil, Nil)

\* cloud_openapi Database {name, links}.
Database(name, links) == [name |-> name, links |-> links]

\* link.rs Link {resource_label, resource}.
Link(resource_label, resource) ==
    [resource_label |-> resource_label, resource |-> resource]

\* Link::app_name: the display name, "UNKNOWN" when the label carries none.
LinkAppName(link) ==
    IF link.resource_label.app_name = NoName THEN "UNKNOWN"
    ELSE link.resource_label.app_name

Min(S) == CHOOSE x \in S : \A y \in S : x <= y

\* Option values are sequences of length 0 (None) or 1 (Some).
None == << >>
Some(x) == << x >>

VARIABLES
    databases,      \* the catalog: Seq of Database, in creation order
    echo,           \* TRUE: the catalog lists app_name as submitted;
                    \* FALSE: it lists the application's name for the app_id
    labels_to_dbs,  \* Scripted.labels_to_dbs: label -> database name
    cmd,            \* the last invocation and its inputs
    result,         \* what the last invocation returned
    trace,          \* the catalog calls and prompts of the last invocation
    before,         \* the catalog when the last invocation started
    attempts,       \* the candidate names generate_unique has drawn so far
    rerun,          \* the same deploy run once more on the same catalog:
                    \* None, or Some of its command, result and log
    procs           \* the link invocations running side by side: of each its
                    \* position, command, listing, result and log

vars == << databases, echo, labels_to_dbs, cmd, result, trace, before, attempts,
           rerun, procs >>

\* ---------------------------------------------------------------- catalog
DbIndex(dbs, name) == {i \in 1..Len(dbs) : dbs[i].name = name}

DbExists(dbs, name) == DbIndex(dbs, name) # {}

\* The ResourceLabel the catalog lists for a submitted one.
Stored(e, rl) ==
    IF e THEN rl ELSE ResourceLabel(rl.app_id, rl.label, rl.app_id)

\* A link is the association (database, label, application).
SameLink(l, rl) == l.app_id = rl.app_id /\ l.label = rl.label

HasLinkFor(db, rl) == \E i \in 1..Len(db.links) : SameLink(db.links[i], rl)

\* Whether the catalog carries out a call; a refused call fails upstream.
CatalogAccepts(dbs, op, db, rl) ==
    CASE op = "get_databases" -> TRUE
      [] op = "create_database" -> ~DbExists(dbs, db)
      [] op = "create_database_link" ->
            /\ DbExists(dbs, db)
            /\ ~HasLinkFor(dbs[Min(DbIndex(dbs, db))], rl)
      [] op = "remove_database_link" ->
            /\ DbExists(dbs, db)
            /\ HasLinkFor(dbs[Min(DbIndex(dbs, db))], rl)
      [] OTHER -> TRUE

\* The catalog after an accepted call.
CatalogApply(dbs, e, op, db, rl) ==
    CASE op = "create_database" ->
            Append(dbs, Database(db, IF rl = NoRL THEN << >> ELSE << Stored(e, rl) >>))
      [] op = "create_database_link" ->
            [i \in 1..Len(dbs) |->
                IF dbs[i].name = db
                THEN Database(db, Append(dbs[i].links, Stored(e, rl)))
                ELSE dbs[i]]
      [] op = "remove_database_link" ->
            [i \in 1..Len(dbs) |->
                IF dbs[i].name = db
                THEN Database(db, SelectSeq(dbs[i].links, LAMBDA l : ~SameLink(l, rl)))
                ELSE dbs[i]]
      [] OTHER -> dbs

\* get_databases(Some(app_id)): the databases linked to that application.
ListFor(dbs, app_id) ==
    SelectSeq(dbs, LAMBDA d : \E i \in 1..Len(d.links) : d.links[i].app_id = app_id)

\* ------------------------------------------------------- one invocation
\* The run of an invocation: the catalog, the log and whether a call failed.
Start(dbs) == [dbs |-> dbs, trace |-> << >>, failed |-> FALSE, calls |-> 0]

CatalogOps == {"get_databases", "create_database", "create_database_link",
               "remove_database_link"}

MutationOps == CatalogOps \ {"get_databases"}

CallCount(tr) == Cardinality({i \in 1..Len(tr) : tr[i].op \in CatalogOps})

\* A logged event: a catalog call with its arguments and whether it
\* succeeded, or a prompt with its outcome.
Entry(op, db, rl, ok, out) ==
    [op |-> op, db |-> db, rl |-> rl, ok |-> ok, out |-> out]

\* One awaited catalog call. It fails when it is the failAt-th call of the
\* invocation (a transport error) or when the catalog refuses it.
Call(run, e, failAt, op, db, rl) ==
    LET fails == \/ run.calls + 1 = failAt
                 \/ ~CatalogAccepts(run.dbs, op, db, rl)
    IN  [dbs |-> IF fails THEN run.dbs ELSE CatalogApply(run.dbs, e, op, db, rl),
         trace |-> Append(run.trace, Entry(op, db, rl, ~fails, Nil)),
         failed |-> fails,
         calls |-> run.calls + 1]

\* A terminal prompt, logged with the answer it got.
Prompt(run, kind, answer) ==
    [run EXCEPT !.trace = Append(@, Entry(kind, Nil, NoRL, answer # "ioerror", answer))]

Finish(run, res) == [dbs |-> run.dbs, trace |-> run.trace, result |-> res]

\* What an invocation returns: Ok or Err, its kind, the entities its message
\* names, and the value it carries.
Ok(kind, value) == [ok |-> TRUE, kind |-> kind, names |-> << >>, value |-> value]

Err(kind, names) == [ok |-> FALSE, kind |-> kind, names |-> names, value |-> << >>]

\* `?` on a failed catalog call.
Upstream(run) == Finish(run, Err("Upstream", << run.trace[Len(run.trace)].op >>))

\* ------------------------------------------------------ sqlite.rs helpers
\* The first link of the database with that label, whatever its application.
find_database_link(db, label) ==
    LET hits == {i \in 1..Len(db.links) : db.links[i].label = label}
    IN  IF hits = {} THEN None
        ELSE Some(Link(db.links[Min(hits)], db.name))

\* Variant: the link is matched by its label alone.
database_has_link_AnyApp(database, label, app) ==
    \E i \in 1..Len(database.links) : database.links[i].label = label

database_has_link(database, label, app) ==
    \E i \in 1..Len(database.links) :
        /\ database.links[i].label = label
        /\ database.links[i].app_name = app

\* ------------------------------------------------------- direct link
\* Variant: the target is taken to exist without looking.
FindTarget_Unchecked(dbs, database) == TRUE

\* databases.iter().find(|d| d.name == self.database)
FindTarget(dbs, database) == DbExists(dbs, database)

\* filter(|d| d.links.iter().any(|l| l.app_id == app_id))
databases_for_app(dbs, app_id) ==
    SelectSeq(dbs, LAMBDA d : \E i \in 1..Len(d.links) : d.links[i].app_id = app_id)

\* Variant: the partition predicate negated.
this_db_Negated(dbs, database) == SelectSeq(dbs, LAMBDA d : d.name # database)

\* partition(|d| d.name == self.database)
this_db(dbs, database) == SelectSeq(dbs, LAMBDA d : d.name = database)

other_dbs(dbs, database) == SelectSeq(dbs, LAMBDA d : d.name # database)

\* iter().find_map(|d| find_database_link(d, label))
FindMapLink(dbs, label) ==
    LET hits == {i \in 1..Len(dbs) : find_database_link(dbs[i], label) # None}
    IN  IF hits = {} THEN None ELSE find_database_link(dbs[Min(hits)], label)

existing_link_for_database(dbs, c) ==
    FindMapLink(this_db(databases_for_app(dbs, c.app), c.database), c.label)

existing_link_for_other_database(dbs, c) ==
    FindMapLink(other_dbs(databases_for_app(dbs, c.app), c.database), c.label)

\* Variant: a cancelled confirmation counts as yes (unwrap_or(true)).
Confirmed_CancelIsYes(answer) == answer \in {"yes", "cancel"}

\* Confirm::interact_opt()?.unwrap_or_default()
Confirmed(answer) == answer = "yes"

\* Variant: the new link is created whether or not the old one was removed.
Relink_Regardless(run, e, c, old) ==
    LET r1 == Call(run, e, c.failAt, "remove_database_link",
                   old.resource, old.resource_label)
        r2 == Call(r1, e, c.failAt, "create_database_link",
                   c.database, ResourceLabel(c.app, c.label, NoName))
    IN  IF r2.failed THEN Upstream(r2)
        ELSE Finish(r2, Ok("Linked", << >>))

\* The confirmed relink: remove the old link, then create the new one.
Relink(run, e, c, old) ==
    LET r1 == Call(run, e, c.failAt, "remove_database_link",
                   old.resource, old.resource_label)
        r2 == Call(r1, e, c.failAt, "create_database_link",
                   c.database, ResourceLabel(c.app, c.label, NoName))
    IN  IF r1.failed THEN Upstream(r1)
        ELSE IF r2.failed THEN Upstream(r2)
        ELSE Finish(r2, Ok("Linked", << >>))

\* The (_, Some(link)) arm.
RelinkConflict(run, e, c, old) ==
    LET r1 == Prompt(run, "confirm", c.answer)
    IN  IF c.answer = "ioerror" THEN Finish(r1, Err("Prompt", << >>))
        ELSE IF Confirmed(c.answer) THEN Relink(r1, e, c, old)
        ELSE Finish(r1, Ok("NotUpdated", << >>))

\* The (None, None) arm.
LinkDirectly(run, e, c) ==
    LET r1 == Call(run, e, c.failAt, "create_database_link",
                   c.database, ResourceLabel(c.app, c.label, NoName))
    IN  IF r1.failed THEN Upstream(r1) ELSE Finish(r1, Ok("Linked", << >>))

\* Variant: the catalog is looked at again when the call is about to be
\* made.
Listed_Afresh(listed, run) == run.dbs

\* What the invocation goes by once get_databases has returned: the listing
\* it was given, whatever the catalog holds by the time it calls again.
Listed_Snapshot(listed, run) == listed

\* SqliteLinkCommand::link from the listing on. The run is the invocation so
\* far on the catalog as it is now.
link_listed(listed, run, e, c) ==
    LET dbs == Listed_Snapshot(listed, run)
        mine == existing_link_for_database(dbs, c)
        theirs == existing_link_for_other_database(dbs, c)
    IN  IF ~FindTarget(dbs, c.database)
        THEN Finish(run, Err("NotFound", << c.database >>))
        ELSE IF mine # None
        THEN Finish(run, Err("AlreadyLinked",
                 << mine[1].resource, LinkAppName(mine[1]),
                    mine[1].resource_label.label >>))
        ELSE IF theirs # None THEN RelinkConflict(run, e, c, theirs[1])
        ELSE LinkDirectly(run, e, c)

\* SqliteLinkCommand::link
link(dbs, e, c) ==
    LET r1 == Call(Start(dbs), e, c.failAt, "get_databases", Nil, NoRL)
    IN  IF r1.failed THEN Upstream(r1) ELSE link_listed(dbs, r1, e, c)

\* ------------------------------------------------------------ unlink
\* Variant: the link is matched by its label alone.
FindAppLink_AnyApp(db, app, label) ==
    LET hits == {i \in 1..Len(db.links) : db.links[i].label = label}
    IN  IF hits = {} THEN None ELSE Some(<< db.name, db.links[Min(hits)] >>)

\* d.links.into_iter().find(app_name == Some(app) && label == label)
FindAppLink(db, app, label) ==
    LET hits == {i \in 1..Len(db.links) :
                    db.links[i].app_name = app /\ db.links[i].label = label}
    IN  IF hits = {} THEN None ELSE Some(<< db.name, db.links[Min(hits)] >>)

\* into_iter().find_map(...)
FindMapAppLink(dbs, app, label) ==
    LET hits == {i \in 1..Len(dbs) : FindAppLink(dbs[i], app, label) # None}
    IN  IF hits = {} THEN None ELSE FindAppLink(dbs[Min(hits)], app, label)

\* SqliteUnlinkCommand::unlink
unlink(dbs, e, c) ==
    LET r1 == Call(Start(dbs), e, c.failAt, "get_databases", Nil, NoRL)
        found == FindMapAppLink(ListFor(dbs, c.app), c.app, c.label)
        r2 == Call(r1, e, c.failAt, "remove_database_link", found[1][1], found[1][2])
    IN  IF r1.failed THEN Upstream(r1)
        ELSE IF found = None
        THEN Finish(r1, Err("NotFound", << c.app, c.label >>))
        ELSE IF r2.failed THEN Upstream(r2)
        ELSE Finish(r2, Ok("Unlinked", << >>))

\* ------------------------------------------------------ sqlite create
\* Variant: the database is created without looking at the listing.
create_Unchecked(dbs, e, c) ==
    LET r1 == Call(Start(dbs), e, c.failAt, "get_databases", Nil, NoRL)
        r2 == Call(r1, e, c.failAt, "create_database", c.database, NoRL)
    IN  IF r1.failed THEN Upstream(r1)
        ELSE IF r2.failed THEN Upstream(r2)
        ELSE Finish(r2, Ok("Created", << >>))

\* CreateCommand::run
create(dbs, e, c) ==
    LET r1 == Call(Start(dbs), e, c.failAt, "get_databases", Nil, NoRL)
        r2 == Call(r1, e, c.failAt, "create_database", c.database, NoRL)
    IN  IF r1.failed THEN Upstream(r1)
        ELSE IF DbExists(dbs, c.database)
        THEN Finish(r1, Err("AlreadyExists", << c.database >>))
        ELSE IF r2.failed THEN Upstream(r2)
        ELSE Finish(r2, Ok("Created", << >>))

\* ------------------------------------------------ resolution strategies
\* DatabaseSelection, or the error the strategy failed with.
Existing(db) == [kind |-> "Existing", db |-> db]
New(db) == [kind |-> "New", db |-> db]
Cancelled == [kind |-> "Cancelled", db |-> Nil]
Failed(why) == [kind |-> "Err", db |-> why]
\* Not an outcome: the answer is none the terminal could have given.
Impossible == [kind |-> "Impossible", db |-> Nil]

NameSeq(dbs) == [i \in 1..Len(dbs) |-> dbs[i].name]

\* Variant: no name is passed on as taken.
NameSet_Nothing(dbs) == {}

\* databases.iter().map(|d| d.name.as_str()).collect::<HashSet<_>>()
NameSet(dbs) == {dbs[i].name : i \in 1..Len(dbs)}

\* What the operator answers to the prompts of one resolution:
\*   choice  the two-option Select: "existing", "new", "cancel", "ioerror"
\*   pick    the database Select: a listed name, "cancel", "ioerror"
\*   gen     the default name generate_unique produced, or "exhausted"
\*   text    the name Input: "default" (accepted as is), a typed name,
\*           "ioerror", or "cancel": the Input was interrupted
\* When the default is not accepted it does not matter which name it was:
\* SomeDefault stands for it.
Answer(choice, pick, gen, text) ==
    [choice |-> choice, pick |-> pick, gen |-> gen, text |-> text]

NoAnswer == Answer(Nil, Nil, Nil, Nil)

SomeDefault == "some-default"

\* const NAME_GENERATION_MAX_ATTEMPTS
NAME_GENERATION_MAX_ATTEMPTS == 100

\* RandomNameGenerator::generate_unique after one more candidate, `drawn`
\* candidates having been drawn before it: the candidate is returned when it
\* is not a taken name, and the attempt bound reached is an error.
generate_unique(existing_names, drawn, candidate, max_attempts) ==
    IF candidate \notin existing_names
    THEN [state |-> "returned", name |-> candidate]
    ELSE IF drawn + 1 >= max_attempts
    THEN [state |-> "exhausted", name |-> Nil]
    ELSE [state |-> "generating", name |-> Nil]

\* Interactive::prompt_for_existing_database
prompt_for_existing_database(a, database_names) ==
    CASE a.pick = "ioerror" -> Failed("Prompt")
      [] a.pick = "cancel" /\ database_names # << >> -> Cancelled
      [] \E i \in 1..Len(database_names) : database_names[i] = a.pick ->
            Existing(a.pick)
      [] OTHER -> Impossible

\* Variant: a generator that ran out of attempts counts as a cancellation.
prompt_link_to_new_database_Abort(a, existing_names) ==
    CASE a.gen = "exhausted" -> Cancelled
      [] a.text = "default" -> New(a.gen)
      [] OTHER -> New(a.text)

\* Interactive::prompt_link_to_new_database. The default name is what
\* generate_unique returned for existing_names; a default that is a taken
\* name is none it can have returned. Input::interact_text returns a name or
\* an error, nothing else: an interrupted Input is an error.
prompt_link_to_new_database(a, existing_names) ==
    CASE a.gen = "exhausted" -> Failed("GenerationExhausted")
      [] a.gen \in existing_names -> Impossible
      [] a.text \in {"ioerror", "cancel"} -> Failed("Prompt")
      [] a.text = "default" /\ a.gen \in DbNames -> New(a.gen)
      [] a.text \in DbNames -> New(a.text)
      [] OTHER -> Impossible

\* impl InteractionStrategy for Interactive
InteractiveSelection(a, dbs) ==
    CASE a.choice = "ioerror" -> Failed("Prompt")
      [] a.choice = "cancel" -> Cancelled
      [] a.choice = "existing" -> prompt_for_existing_database(a, NameSeq(dbs))
      [] a.choice = "new" -> prompt_link_to_new_database(a, NameSet(dbs))
      [] OTHER -> Impossible

\* Scripted.labels_to_dbs with nothing registered.
EmptyMap == << >>

\* Variant: HashMap::insert, the later registration replacing the earlier.
set_label_action_Insert(map, label, db) ==
    [map |-> [l \in DOMAIN map \cup {label} |-> IF l = label THEN db ELSE map[l]],
     result |-> Ok("Registered", << >>)]

\* Scripted::set_label_action: the mapping afterwards and the result.
set_label_action(map, label, db) ==
    IF label \in DOMAIN map
    THEN [map |-> map, result |-> Err("DuplicateDeclaration", << label >>)]
    ELSE [map |-> [l \in DOMAIN map \cup {label} |->
                      IF l = label THEN db ELSE map[l]],
          result |-> Ok("Registered", << >>)]

\* Variant: an unregistered label refers to the database of its own name.
db_ref_for_Default(map, label) ==
    IF label \in DOMAIN map THEN Some(map[label]) ELSE Some(label)

\* Scripted::db_ref_for
db_ref_for(map, label) ==
    IF label \in DOMAIN map THEN Some(map[label]) ELSE None

\* Variant: the requested database is created without looking at the
\* candidates.
ScriptedSelection_AlwaysNew(map, label, dbs) ==
    IF label \in DOMAIN map THEN New(map[label]) ELSE Failed("MissingDeclaration")

\* impl InteractionStrategy for Scripted
ScriptedSelection(map, label, dbs) ==
    LET existing_names == NameSet(dbs)
        requested_db == db_ref_for(map, label)
    IN  IF requested_db = None THEN Failed("MissingDeclaration")
        ELSE IF requested_db[1] \in existing_names
        THEN Existing(requested_db[1])
        ELSE New(requested_db[1])

\* interact.prompt_database_selection(name, label, databases)
prompt_database_selection(strategy, map, a, name, label, dbs) ==
    IF strategy = "scripted" THEN ScriptedSelection(map, label, dbs)
    ELSE InteractiveSelection(a, dbs)

\* ------------------------------------------- reconcile an existing app
\* Variant: nothing is ever taken to be linked already.
AlreadyLinked_Never(dbs, rl) == FALSE

\* databases.iter().any(|d| database_has_link(d, label, app_name))
AlreadyLinked(dbs, rl) ==
    \E i \in 1..Len(dbs) : database_has_link(dbs[i], rl.label, rl.app_name)

\* Variant: a new database is created unlinked and an existing one is created
\* again.
ReconcileCall_CreateOnly(sel, resource_label) ==
    [op |-> "create_database", rl |-> NoRL]

\* match selection: New creates the database with the ResourceLabel attached,
\* Existing creates the link.
ReconcileCall(sel, resource_label) ==
    [op |-> IF sel.kind = "New" THEN "create_database" ELSE "create_database_link",
     rl |-> resource_label]

\* Variant: a cancellation is returned as an error.
ReconcileCancelled_AsError(run) == Finish(run, Err("Cancelled", << >>))

\* DatabaseSelection::Cancelled => return Ok(None)
ReconcileCancelled(run) == Finish(run, Ok("None", << >>))

\* One label of create_and_link_databases_for_existing_app, then the rest.
RECURSIVE ReconcileFrom(_, _, _, _, _)
ReconcileFrom(run, e, c, map, k) ==
    IF k > Len(c.labels) THEN Finish(run, Ok("Some", << >>))
    ELSE
    LET resource_label == ResourceLabel(c.app, c.labels[k], c.app)
        r1 == Call(run, e, c.failAt, "get_databases", Nil, NoRL)
        sel == prompt_database_selection(c.strategy, map, c.answers[k], c.app,
                                         c.labels[k], run.dbs)
        r2 == [r1 EXCEPT !.trace = Append(@,
                  Entry("resolve", sel.db, resource_label, sel.kind # "Err", sel.kind))]
        call == ReconcileCall(sel, resource_label)
        r3 == Call(r2, e, c.failAt, call.op, sel.db, call.rl)
    IN  IF r1.failed THEN Upstream(r1)
        ELSE IF AlreadyLinked(run.dbs, resource_label)
        THEN ReconcileFrom(r1, e, c, map, k + 1)
        ELSE IF sel.kind \in {"Err", "Impossible"}
        THEN Finish(r2, Err(sel.kind, << sel.db >>))
        ELSE IF sel.kind = "Cancelled" THEN ReconcileCancelled(r2)
        ELSE IF r3.failed
        THEN Finish(r3, Err("Upstream",
                 IF sel.kind = "New" THEN << "create_database" >>
                 ELSE << "create_database_link", sel.db, c.app >>))
        ELSE ReconcileFrom(r3, e, c, map, k + 1)

\* create_and_link_databases_for_existing_app
create_and_link_databases_for_existing_app(dbs, e, c, map) ==
    ReconcileFrom(Start(dbs), e, c, map, 1)

\* ------------------------------------------------ provision a new app
\* Variant: the pair is put in front of the list.
Push_Front(databases_to_link, db, label) == << << db, label >> >> \o databases_to_link

\* databases_to_link.push((db, label))
Push(databases_to_link, db, label) == Append(databases_to_link, << db, label >>)

\* Variant: a cancellation is returned as an error.
ProvisionCancelled_AsError(run) == Finish(run, Err("Cancelled", << >>))

\* DatabaseSelection::Cancelled => return Ok(None)
ProvisionCancelled(run) == Finish(run, Ok("None", << >>))

\* Variant: the candidates are the databases there were when the pass began,
\* those it created since left out.
get_database_selection_for_new_app_Stale(strategy, map, a, name, label, run) ==
    LET created == {run.trace[i].db : i \in {j \in 1..Len(run.trace) :
                        run.trace[j].op = "create_database" /\ run.trace[j].ok}}
    IN  prompt_database_selection(strategy, map, a, name, label,
            SelectSeq(run.dbs, LAMBDA d : d.name \notin created))

\* get_database_selection_for_new_app: the catalog is listed and the
\* strategy resolves the label among the databases listed.
get_database_selection_for_new_app(strategy, map, a, name, label, run) ==
    prompt_database_selection(strategy, map, a, name, label, run.dbs)

\* One label of create_databases_for_new_app, then the rest. The application
\* has no id yet: no ResourceLabel is built.
RECURSIVE ProvisionFrom(_, _, _, _, _, _)
ProvisionFrom(run, e, c, map, k, databases_to_link) ==
    IF k > Len(c.labels) THEN Finish(run, Ok("Some", databases_to_link))
    ELSE
    LET label == c.labels[k]
        r1 == Call(run, e, c.failAt, "get_databases", Nil, NoRL)
        sel == get_database_selection_for_new_app(c.strategy, map, c.answers[k],
                                                  c.app, label, run)
        r2 == [r1 EXCEPT !.trace = Append(@,
                  Entry("resolve", sel.db, ResourceLabel(Nil, label, Nil),
                        sel.kind # "Err", sel.kind))]
        r3 == Call(r2, e, c.failAt, "create_database", sel.db, NoRL)
    IN  IF r1.failed THEN Upstream(r1)
        ELSE IF sel.kind \in {"Err", "Impossible"}
        THEN Finish(r2, Err(sel.kind, << sel.db >>))
        ELSE IF sel.kind = "Cancelled" THEN ProvisionCancelled(r2)
        ELSE IF sel.kind = "Existing"
        THEN ProvisionFrom(r2, e, c, map, k + 1, Push(databases_to_link, sel.db, label))
        ELSE IF r3.failed THEN Upstream(r3)
        ELSE ProvisionFrom(r3, e, c, map, k + 1, Push(databases_to_link, sel.db, label))

\* Variant: the labels are reconciled as those of a deployed application.
create_databases_for_new_app_Linking(dbs, e, c, map) ==
    create_and_link_databases_for_existing_app(dbs, e, c, map)

\* create_databases_for_new_app
create_databases_for_new_app(dbs, e, c, map) ==
    ProvisionFrom(Start(dbs), e, c, map, 1, << >>)

\* ------------------------------------------------------------ batch link
\* One pair of link_databases, then the rest. The pairs (database, label)
\* are the labels field of the command.
RECURSIVE LinkFrom(_, _, _, _)
LinkFrom(run, e, c, k) ==
    IF k > Len(c.labels) THEN Finish(run, Ok("Linked", << >>))
    ELSE
    LET database == c.labels[k][1]
        resource_label == ResourceLabel(c.app, c.labels[k][2], c.app)
        r1 == Call(run, e, c.failAt, "create_database_link", database,
                   resource_label)
    IN  IF r1.failed
        THEN Finish(r1, Err("Upstream", << "create_database_link", database, c.app >>))
        ELSE LinkFrom(r1, e, c, k + 1)

\* Variant: a failed create-link is skipped and the batch goes on.
RECURSIVE LinkFrom_Continue(_, _, _, _)
LinkFrom_Continue(run, e, c, k) ==
    IF k > Len(c.labels) THEN Finish(run, Ok("Linked", << >>))
    ELSE LinkFrom_Continue(
             Call(run, e, c.failAt, "create_database_link", c.labels[k][1],
                  ResourceLabel(c.app, c.labels[k][2], c.app)), e, c, k + 1)

link_databases_Continue(dbs, e, c) == LinkFrom_Continue(Start(dbs), e, c, 1)

\* link_databases
link_databases(dbs, e, c) == LinkFrom(Start(dbs), e, c, 1)

\* ------------------------------------------------------- the system
RECURSIVE SumLinks(_)
SumLinks(dbs) ==
    IF dbs = << >> THEN 0 ELSE Len(Head(dbs).links) + SumLinks(Tail(dbs))

\* The catalog stays within the bounds of the model, its databases named in
\* creation order.
Bounded(dbs) ==
    /\ Len(dbs) <= MaxDbs
    /\ SumLinks(dbs) <= MaxLinks
    /\ \A i \in 1..Len(dbs) : dbs[i].name = DbPool[i]

\* The answers to the relink confirmation.
Confirms == {"yes", "no", "cancel", "ioerror"}

\* The answers to one interactive resolution. The default name is any name
\* not taken.
Answers ==
    {Answer(c, Nil, Nil, Nil) : c \in {"cancel", "ioerror"}}
    \cup {Answer("existing", p, Nil, Nil) : p \in DbNames \cup {"cancel", "ioerror"}}
    \cup {Answer("new", Nil, g, "default") : g \in DbNames}
    \cup {Answer("new", Nil, "exhausted", Nil)}
    \cup {Answer("new", Nil, SomeDefault, t) : t \in DbNames \cup {"ioerror"}}

\* An invocation and its inputs: the arguments, the answer to the relink
\* confirmation, the call that fails, the iteration order of the label set,
\* the resolution strategy and the answers to its prompts, label by label.
Command(op, app, database, label, answer, failAt, labels, strategy, answers) ==
    [op |-> op, app |-> app, database |-> database, label |-> label,
     answer |-> answer, failAt |-> failAt, labels |-> labels,
     strategy |-> strategy, answers |-> answers]

NoCommand == Command("none", Nil, Nil, Nil, Nil, 0, << >>, Nil, << >>)

\* No invocation is running: the last process has exited.
Idle == cmd = NoCommand

\* The link invocations that run side by side, and one of them: where it is
\* ("idle", "listed", "done"), its command, the listing it was given, and
\* its result and log.
Procs == {1, 2}

Proc(pc, c, listing, res, tr) ==
    [pc |-> pc, cmd |-> c, listing |-> listing, result |-> res, trace |-> tr]

NoProcs == [p \in Procs |-> Proc("idle", NoCommand, << >>, Ok("none", << >>), << >>)]

Asked(tr, label) ==
    \E i \in 1..Len(tr) : tr[i].op = "resolve" /\ tr[i].rl.label = label

\* The inputs are those the run consumed: the failing call is one it made,
\* and an answer is given exactly where a prompt was shown.
Consumed(c, out) ==
    /\ c.failAt <= CallCount(out.trace)
    /\ (c.answer # Nil) = (\E i \in 1..Len(out.trace) : out.trace[i].op = "confirm")
    /\ out.result.kind # "Impossible"
    /\ \A k \in 1..Len(c.answers) :
          (c.answers[k] # NoAnswer) =
              (c.strategy = "interactive" /\ Asked(out.trace, c.labels[k]))

\* An invocation ran on the catalog.
Invoke(c, out, map) ==
    /\ Idle
    /\ Consumed(c, out)
    /\ Bounded(out.dbs)
    /\ databases' = out.dbs
    /\ cmd' = c
    /\ result' = out.result
    /\ trace' = out.trace
    /\ before' = databases
    /\ labels_to_dbs' = map
    /\ rerun' = None
    /\ UNCHANGED << echo, attempts, procs >>

LinkCommand(app, database, label, answer, failAt) ==
    Command("link", app, database, label, answer, failAt, << >>, Nil, << >>)

DoLink ==
    \E app \in Apps, database \in DbNames, label \in Labels,
       answer \in Confirms \cup {Nil}, failAt \in 0..3 :
        LET c == LinkCommand(app, database, label, answer, failAt)
        IN  Invoke(c, link(databases, echo, c), EmptyMap)

UnlinkCommand(app, label, failAt) ==
    Command("unlink", app, Nil, label, Nil, failAt, << >>, Nil, << >>)

DoUnlink ==
    \E app \in Apps, label \in Labels, failAt \in 0..2 :
        LET c == UnlinkCommand(app, label, failAt)
        IN  Invoke(c, unlink(databases, echo, c), EmptyMap)

CreateCommand(database, failAt) ==
    Command("create", Nil, database, Nil, Nil, failAt, << >>, Nil, << >>)

DoCreate ==
    \E database \in DbNames, failAt \in 0..2 :
        LET c == CreateCommand(database, failAt)
        IN  Invoke(c, create(databases, echo, c), EmptyMap)

\* The mappings a deploy can declare for a label set.
Maps(labels) == UNION {[D -> DbNames] : D \in SUBSET labels}

\* The label sets reconciled one label at a time.
OneLabel == {<< l >> : l \in Labels}

ReconcileCommand(app, labels, strategy, answers, failAt) ==
    Command("reconcile", app, Nil, Nil, Nil, failAt, labels, strategy, answers)

DoReconcileInteractive ==
    \E app \in Apps, labels \in OneLabel :
        \E answers \in [1..Len(labels) -> Answers \cup {NoAnswer}],
           failAt \in 0..(2 * Len(labels)) :
            LET c == ReconcileCommand(app, labels, "interactive", answers, failAt)
            IN  Invoke(c, create_and_link_databases_for_existing_app(
                              databases, echo, c, EmptyMap), EmptyMap)

DoReconcileScripted ==
    \E app \in Apps, labels \in OneLabel :
        \E map \in Maps({labels[k] : k \in 1..Len(labels)}),
           failAt \in 0..(2 * Len(labels)) :
            LET c == ReconcileCommand(app, labels, "scripted",
                                      [k \in 1..Len(labels) |-> NoAnswer], failAt)
            IN  Invoke(c, create_and_link_databases_for_existing_app(
                              databases, echo, c, map), map)

Init ==
    /\ databases = << >>
    /\ echo = FALSE
    /\ labels_to_dbs = EmptyMap
    /\ cmd = NoCommand
    /\ result = Ok("none", << >>)
    /\ trace = << >>
    /\ before = << >>
    /\ attempts = 0
    /\ rerun = None
    /\ procs = NoProcs

\* main returns and the process exits: nothing of the invocation is kept.
Exit ==
    /\ ~Idle
    /\ cmd' = NoCommand
    /\ result' = Ok("none", << >>)
    /\ trace' = << >>
    /\ before' = << >>
    /\ labels_to_dbs' = EmptyMap
    /\ attempts' = 0
    /\ rerun' = None
    /\ UNCHANGED << databases, echo, procs >>

Next ==
    \/ DoLink
    \/ DoUnlink
    \/ DoCreate
    \/ DoReconcileInteractive
    \/ DoReconcileScripted
    \/ Exit

Spec == Init /\ [][Next]_vars

\* ------------------------------ a catalog that lists labels as submitted
\* The catalog hands back each ResourceLabel exactly as it was given it, the
\* application name included or left out.
InitEcho ==
    /\ databases = << >>
    /\ echo = TRUE
    /\ labels_to_dbs = EmptyMap
    /\ cmd = NoCommand
    /\ result = Ok("none", << >>)
    /\ trace = << >>
    /\ before = << >>
    /\ attempts = 0
    /\ rerun = None
    /\ procs = NoProcs

SpecEcho == InitEcho /\ [][Next]_vars

\* --------------------------------------------------------- the deploys
\* A label set in the order its HashSet iterates: any order.
LabelSeqs ==
    {<< >>} \cup OneLabel
    \cup {q \in Labels \X Labels : q[1] # q[2]}

\* The (database, label) lists a batch link is given.
Pairs == DbNames \X Labels

PairSeqs == {<< >>} \cup {<< p >> : p \in Pairs} \cup (Pairs \X Pairs)

ProvisionCommand(app, labels, strategy, answers, failAt) ==
    Command("provision", app, Nil, Nil, Nil, failAt, labels, strategy, answers)

\* The pass cut down to its first label.
FirstLabel(c) ==
    [c EXCEPT !.labels = IF @ = << >> THEN @ ELSE << @[1] >>,
              !.answers = IF @ = << >> THEN @ ELSE << @[1] >>]

\* The answer to the first label is one its run consumed, and its run stays
\* within the bounds. The run of the first label is the same whatever
\* follows it and a pass only adds to the catalog, so that Invoke holds of
\* no pass in which this fails.
FirstConsumed(c1, out1) ==
    /\ out1.result.kind # "Impossible"
    /\ Bounded(out1.dbs)
    /\ \A k \in 1..Len(c1.labels) :
          (c1.answers[k] # NoAnswer) = Asked(out1.trace, c1.labels[k])

\* The answers to the labels after the first: none when the pass ended at
\* the first label.
RestAnswers(labels, out1) ==
    IF out1.result.ok /\ out1.result.kind = "Some"
    THEN [1..(Len(labels) - 1) -> Answers \cup {NoAnswer}]
    ELSE {[k \in 1..(Len(labels) - 1) |-> NoAnswer]}

\* The answers of a pass: one for the first label, then those for the rest.
AnswerSeq(labels, first, rest) ==
    IF labels = << >> THEN << >> ELSE << first >> \o rest

DoProvisionInteractive ==
    Idle /\ \E app \in Apps, labels \in LabelSeqs :
        \E failAt \in 0..(2 * Len(labels)), first \in Answers \cup {NoAnswer} :
            LET c1 == ProvisionCommand(app, labels, "interactive",
                                       AnswerSeq(labels, first, << >>), failAt)
                out1 == create_databases_for_new_app(databases, echo,
                                                     FirstLabel(c1), EmptyMap)
            IN  /\ labels = << >> => first = NoAnswer
                /\ FirstConsumed(FirstLabel(c1), out1)
                /\ \E rest \in RestAnswers(labels, out1) :
                      LET c == ProvisionCommand(app, labels, "interactive",
                                   AnswerSeq(labels, first, rest), failAt)
                      IN  Invoke(c, create_databases_for_new_app(
                                        databases, echo, c, EmptyMap), EmptyMap)

DoProvisionScripted ==
    Idle /\ \E app \in Apps, labels \in LabelSeqs :
        \E map \in Maps({labels[k] : k \in 1..Len(labels)}),
           failAt \in 0..(2 * Len(labels)) :
            LET c == ProvisionCommand(app, labels, "scripted",
                                      [k \in 1..Len(labels) |-> NoAnswer], failAt)
            IN  Invoke(c, create_databases_for_new_app(databases, echo, c, map), map)

DoReconcileAllInteractive ==
    Idle /\ \E app \in Apps, labels \in LabelSeqs :
        \E failAt \in 0..(2 * Len(labels)), first \in Answers \cup {NoAnswer} :
            LET c1 == ReconcileCommand(app, labels, "interactive",
                                       AnswerSeq(labels, first, << >>), failAt)
                out1 == create_and_link_databases_for_existing_app(
                            databases, echo, FirstLabel(c1), EmptyMap)
            IN  /\ labels = << >> => first = NoAnswer
                /\ FirstConsumed(FirstLabel(c1), out1)
                /\ \E rest \in RestAnswers(labels, out1) :
                      LET c == ReconcileCommand(app, labels, "interactive",
                                   AnswerSeq(labels, first, rest), failAt)
                      IN  Invoke(c, create_and_link_databases_for_existing_app(
                                        databases, echo, c, EmptyMap), EmptyMap)

DoReconcileAllScripted ==
    Idle /\ \E app \in Apps, labels \in LabelSeqs :
        \E map \in Maps({labels[k] : k \in 1..Len(labels)}),
           failAt \in 0..(2 * Len(labels)) :
            LET c == ReconcileCommand(app, labels, "scripted",
                                      [k \in 1..Len(labels) |-> NoAnswer], failAt)
            IN  Invoke(c, create_and_link_databases_for_existing_app(
                              databases, echo, c, map), map)

BatchLinkCommand(app, database_labels, failAt) ==
    Command("link_databases", app, Nil, Nil, Nil, failAt, database_labels, Nil, << >>)

DoLinkDatabases ==
    Idle /\ \E app \in Apps, database_labels \in PairSeqs, failAt \in 0..2 :
        LET c == BatchLinkCommand(app, database_labels, failAt)
        IN  Invoke(c, link_databases(databases, echo, c), EmptyMap)

NextDeploy ==
    \/ DoProvisionInteractive
    \/ DoProvisionScripted
    \/ DoReconcileAllInteractive
    \/ DoReconcileAllScripted
    \/ DoLinkDatabases
    \/ Exit

SpecDeploy == Init /\ [][NextDeploy]_vars

\* ------------------------------------------- the same deploy, run twice
\* The orders in which a HashSet of these labels can iterate: std's default
\* hasher is seeded at random, so that any order can come out.
Orders(label_set) ==
    {q \in LabelSeqs : Len(q) = Cardinality(label_set)
                        /\ {q[k] : k \in 1..Len(q)} = label_set}

\* A deploy ran on the catalog and the same deploy, with the same label set
\* and the same Scripted strategy, ran once more on the catalog as it was.
InvokeTwice(c, out, c2, out2, map) ==
    /\ Consumed(c, out)
    /\ Bounded(out.dbs)
    /\ databases' = out.dbs
    /\ cmd' = c
    /\ result' = out.result
    /\ trace' = out.trace
    /\ before' = databases
    /\ labels_to_dbs' = map
    /\ rerun' = Some([cmd |-> c2, result |-> out2.result, trace |-> out2.trace])
    /\ UNCHANGED << echo, attempts, procs >>

DoProvisionTwice ==
    Idle /\ \E app \in Apps, label_set \in SUBSET Labels :
        \E map \in Maps(label_set), labels \in Orders(label_set),
           labels2 \in Orders(label_set) :
            LET none == [k \in 1..Len(labels) |-> NoAnswer]
                c == ProvisionCommand(app, labels, "scripted", none, 0)
                c2 == ProvisionCommand(app, labels2, "scripted", none, 0)
            IN  InvokeTwice(c, create_databases_for_new_app(databases, echo, c, map),
                            c2, create_databases_for_new_app(databases, echo, c2, map),
                            map)

DoReconcileTwice ==
    Idle /\ \E app \in Apps, label_set \in SUBSET Labels :
        \E map \in Maps(label_set), labels \in Orders(label_set),
           labels2 \in Orders(label_set) :
            LET none == [k \in 1..Len(labels) |-> NoAnswer]
                c == ReconcileCommand(app, labels, "scripted", none, 0)
                c2 == ReconcileCommand(app, labels2, "scripted", none, 0)
            IN  InvokeTwice(c, create_and_link_databases_for_existing_app(
                                   databases, echo, c, map),
                            c2, create_and_link_databases_for_existing_app(
                                    databases, echo, c2, map),
                            map)

NextTwice == DoProvisionTwice \/ DoReconcileTwice \/ Exit

SpecTwice == Init /\ [][NextTwice]_vars

\* ------------------------------------------------------ every workflow
\* The commands and the deploys, run one after another on one catalog.
NextWorkflows ==
    \/ Idle /\ DoLink
    \/ Idle /\ DoUnlink
    \/ Idle /\ DoCreate
    \/ DoProvisionInteractive
    \/ DoProvisionScripted
    \/ DoReconcileAllInteractive
    \/ DoReconcileAllScripted
    \/ DoLinkDatabases
    \/ Exit

SpecWorkflows == Init /\ [][NextWorkflows]_vars

\* ------------------------------------------- the Scripted strategy alone
\* The candidate databases a resolution is given: listings of up to MaxDbs
\* databases, each with at most one link.
CandidateLinks ==
    {<< >>} \cup {<< ResourceLabel(a, l, a) >> : a \in Apps, l \in Labels}

Candidates ==
    UNION {{[i \in 1..n |-> Database(DbPool[i], ls[i])] :
                ls \in [1..n -> CandidateLinks]} : n \in 0..MaxDbs}

\* What a resolution returns to its caller.
SelectionResult(sel, label) ==
    IF sel.kind = "Err" THEN Err(sel.db, << label >>)
    ELSE Ok(sel.kind, << sel.db >>)

\* The caller registers a label.
SetLabelAction ==
    \E label \in Labels, db \in DbNames :
        LET out == set_label_action(labels_to_dbs, label, db)
        IN  /\ labels_to_dbs' = out.map
            /\ result' = out.result
            /\ cmd' = Command("set_label_action", Nil, db, label, Nil, 0,
                              << >>, "scripted", << >>)
            /\ UNCHANGED << databases, echo, trace, before, attempts, rerun, procs >>

\* The orchestration resolves a label of an application.
ScriptedResolve ==
    \E app \in Apps, label \in Labels :
        /\ result' = SelectionResult(
                        prompt_database_selection("scripted", labels_to_dbs, NoAnswer,
                                                  app, label, databases), label)
        /\ cmd' = Command("resolve", app, Nil, label, Nil, 0,
                          << >>, "scripted", << >>)
        /\ UNCHANGED << databases, echo, labels_to_dbs, trace, before, attempts,
                        rerun, procs >>

InitScripted ==
    /\ databases \in Candidates
    /\ echo = FALSE
    /\ labels_to_dbs = EmptyMap
    /\ cmd = NoCommand
    /\ result = Ok("none", << >>)
    /\ trace = << >>
    /\ before = << >>
    /\ attempts = 0
    /\ rerun = None
    /\ procs = NoProcs

NextScripted == SetLabelAction \/ ScriptedResolve

SpecScripted == InitScripted /\ [][NextScripted]_vars

\* ---------------------------------------- the Interactive strategy alone
\* The answers to one interactive resolution, the interrupted name Input
\* among them.
Gestures == Answers \cup {Answer("new", Nil, SomeDefault, "cancel")}

\* The orchestration resolves a label of an application at the terminal.
InteractiveResolve ==
    \E app \in Apps, label \in Labels, a \in Gestures :
        LET sel == prompt_database_selection("interactive", EmptyMap, a, app,
                                             label, databases)
        IN  /\ sel.kind # "Impossible"
            /\ result' = SelectionResult(sel, label)
            /\ cmd' = Command("resolve", app, Nil, label, Nil, 0,
                              << label >>, "interactive", << a >>)
            /\ UNCHANGED << databases, echo, labels_to_dbs, trace, before, attempts,
                            rerun, procs >>

NextInteractive == InteractiveResolve

SpecInteractive == InitScripted /\ [][NextInteractive]_vars

\* --------------------------------------- link invocations side by side
\* A link invocation was started and its get_databases returned: it holds
\* the listing of the catalog as it is now.
RaceList ==
    \E p \in Procs, app \in Apps, database \in DbNames, label \in Labels :
        /\ procs[p].pc = "idle"
        /\ procs' = [procs EXCEPT ![p] =
               Proc("listed", LinkCommand(app, database, label, Nil, 0), databases,
                    Ok("Pending", << >>),
                    << Entry("get_databases", Nil, NoRL, TRUE, Nil) >>)]
        /\ UNCHANGED << databases, echo, labels_to_dbs, cmd, result, trace, before,
                        attempts, rerun >>

\* The invocation goes on from its listing to its end: the relink
\* confirmation, if it shows one, and its calls, made on the catalog as it
\* is by now.
RaceAct ==
    \E p \in Procs, answer \in Confirms \cup {Nil} :
        LET c == [procs[p].cmd EXCEPT !.answer = answer]
            run == [dbs |-> databases, trace |-> procs[p].trace,
                    failed |-> FALSE, calls |-> 1]
            out == link_listed(procs[p].listing, run, echo, c)
        IN  /\ procs[p].pc = "listed"
            /\ Consumed(c, out)
            /\ Bounded(out.dbs)
            /\ databases' = out.dbs
            /\ procs' = [procs EXCEPT ![p] =
                   Proc("done", c, procs[p].listing, out.result, out.trace)]
            /\ UNCHANGED << echo, labels_to_dbs, cmd, result, trace, before,
                            attempts, rerun >>

NextRace == RaceList \/ RaceAct

SpecRace == InitScripted /\ [][NextRace]_vars

\* ------------------------------------- the create-new path, name by name
\* The state of the generate_unique call of the running create-new path.
Generator(state, name) ==
    << Entry("generate_unique", name, NoRL, state # "exhausted", state) >>

Generating == cmd.op = "create_new" /\ trace[1].out = "generating"

\* The operator chose "create a new database" for a label of an application.
BeginCreateNew ==
    \E app \in Apps, label \in Labels :
        /\ Idle
        /\ NAME_GENERATION_MAX_ATTEMPTS > 0
        /\ cmd' = Command("create_new", app, Nil, label, Nil, 0,
                          << >>, "interactive", << >>)
        /\ trace' = Generator("generating", Nil)
        /\ result' = Ok("Pending", << >>)
        /\ attempts' = 0
        /\ UNCHANGED << databases, echo, labels_to_dbs, before, rerun, procs >>

\* The generator yields one more candidate, any name at all.
Draw ==
    \E candidate \in DbNames :
        LET g == generate_unique(NameSet(databases), attempts, candidate,
                                 NAME_GENERATION_MAX_ATTEMPTS)
        IN  /\ Generating
            /\ attempts' = attempts + 1
            /\ trace' = Generator(g.state, g.name)
            /\ UNCHANGED << databases, echo, labels_to_dbs, cmd, result, before,
                            rerun, procs >>

\* generate_unique is back: its error is passed on, or the name Input is
\* shown with the default it returned and answered.
NameInput ==
    \E text \in DbNames \cup {"default", "ioerror"} :
        LET a == IF trace[1].out = "exhausted"
                 THEN Answer("new", Nil, "exhausted", Nil)
                 ELSE Answer("new", Nil, trace[1].db, text)
        IN  /\ cmd.op = "create_new"
            /\ trace[1].out \in {"returned", "exhausted"}
            /\ result.kind = "Pending"
            /\ result' = SelectionResult(InteractiveSelection(a, databases), cmd.label)
            /\ UNCHANGED << databases, echo, labels_to_dbs, cmd, trace, before,
                            attempts, rerun, procs >>

NextNames == BeginCreateNew \/ Draw \/ NameInput \/ Exit

SpecNames == InitScripted /\ [][NextNames]_vars

\* ------------------------------------------------- sqlite list --group-by
\* Texts are sequences of characters.
Space == " "

App == << "a", "p", "p" >>

DatabaseText == << "d", "a", "t", "a", "b", "a", "s", "e" >>

\* enum GroupBy
GroupByValues == {"App", "Database"}

\* impl Display for GroupBy
fmt(g) == IF g = "App" THEN App ELSE DatabaseText

\* The upper-case letter of each letter in use, and back.
UpperOf ==
    [ch \in {"a", "b", "d", "e", "l", "p", "s", "t"} |->
        CASE ch = "a" -> "A" [] ch = "b" -> "B" [] ch = "d" -> "D"
          [] ch = "e" -> "E" [] ch = "l" -> "L" [] ch = "p" -> "P"
          [] ch = "s" -> "S" [] ch = "t" -> "T"]

\* str::to_lowercase
to_lowercase(s) ==
    [i \in 1..Len(s) |->
        IF \E ch \in DOMAIN UpperOf : UpperOf[ch] = s[i]
        THEN CHOOSE ch \in DOMAIN UpperOf : UpperOf[ch] = s[i]
        ELSE s[i]]

RECURSIVE trim_start(_)
trim_start(s) ==
    IF s # << >> /\ Head(s) = Space THEN trim_start(Tail(s)) ELSE s

RECURSIVE trim_end(_)
trim_end(s) ==
    IF s # << >> /\ s[Len(s)] = Space THEN trim_end(SubSeq(s, 1, Len(s) - 1))
    ELSE s

\* str::trim
trim(s) == trim_end(trim_start(s))

\* impl FromStr for GroupBy
from_str(s) ==
    LET t == to_lowercase(trim(s))
    IN  CASE t = App -> Ok("GroupBy", << "App" >>)
          [] t = DatabaseText -> Ok("GroupBy", << "App" >>)
          [] OTHER -> Err("Unrecognized", << t >>)

\* The texts given to --group-by: a word, written in lower case, capitalised
\* or in upper case, with up to MaxPad spaces on either side.
MaxPad == 2

Words == {App, DatabaseText, << "a", "p", "p", "s" >>,
          << "t", "a", "b", "l", "e" >>, << >>}

Capitalised(w) == [i \in 1..Len(w) |-> IF i = 1 THEN UpperOf[w[i]] ELSE w[i]]

UpperCase(w) == [i \in 1..Len(w) |-> UpperOf[w[i]]]

Pad(n) == [i \in 1..n |-> Space]

Texts ==
    {Pad(l) \o v \o Pad(r) :
        l \in 0..MaxPad, r \in 0..MaxPad,
        v \in UNION {{w, Capitalised(w), UpperCase(w)} : w \in Words}}

\* A text is parsed.
ParseGroupBy ==
    \E text \in Texts :
        /\ cmd' = [op |-> "from_str", text |-> text]
        /\ result' = from_str(text)
        /\ UNCHANGED << databases, echo, labels_to_dbs, trace, before, attempts,
                        rerun, procs >>

\* A value is written out.
DisplayGroupBy ==
    \E g \in GroupByValues :
        /\ cmd' = [op |-> "to_string", value |-> g]
        /\ result' = Ok("Text", fmt(g))
        /\ UNCHANGED << databases, echo, labels_to_dbs, trace, before, attempts,
                        rerun, procs >>

\* The text a value was written out as is parsed.
ParseDisplayed ==
    /\ cmd.op = "to_string"
    /\ cmd' = [op |-> "round_trip", value |-> cmd.value, text |-> result.value]
    /\ result' = from_str(result.value)
    /\ UNCHANGED << databases, echo, labels_to_dbs, trace, before, attempts,
                    rerun, procs >>

NextGroupBy == ParseGroupBy \/ DisplayGroupBy \/ ParseDisplayed

SpecGroupBy == Init /\ [][NextGroupBy]_vars

\* ------------------------------------------------------------ properties
\* The mutation calls of a log, in order.
Mutations(tr) == SelectSeq(tr, LAMBDA x : x.op \in MutationOps)

Prompted(tr) == \E i \in 1..Len(tr) : tr[i].op \notin CatalogOps

\* The listing of the invocation succeeded.
Listed == trace # << >> /\ trace[1].op = "get_databases" /\ trace[1].ok

NoCallFailed == \A i \in 1..Len(trace) : trace[i].ok

\* The database holds the link of (app, label).
HoldsLink(db, app, label) ==
    \E j \in 1..Len(db.links) :
        db.links[j].app_id = app /\ db.links[j].label = label

\* The databases of a catalog that hold the link of (app, label).
Holders(dbs, app, label) ==
    {dbs[i].name : i \in {k \in 1..Len(dbs) : HoldsLink(dbs[k], app, label)}}

\* C1: every (application, label) pair has at most one link across all
\* databases, after any sequence of link, unlink and reconcile invocations
\* started from a catalog where that is so.
C1_AtMostOneLink ==
    \A app \in Apps, label \in Labels :
        Cardinality(Holders(databases, app, label)) <= 1

\* C2: a direct link whose target database is not in the listing fails with
\* NotFound naming the requested database, issues no mutation call and
\* leaves the catalog unchanged.
C2_LinkTargetNotFound ==
    (cmd.op = "link" /\ Listed /\ ~DbExists(before, cmd.database)) =>
        /\ result = Err("NotFound", << cmd.database >>)
        /\ Mutations(trace) = << >>
        /\ databases = before

C2_Witness ==
    /\ cmd.op = "link" /\ Listed /\ ~DbExists(before, cmd.database)
    /\ before # << >>
    /\ result.kind = "NotFound"

\* C3: a direct link whose target database already holds the link of this
\* application with this label fails with AlreadyLinked, issues no mutation
\* call and leaves every database's links unchanged.
C3_LinkAlreadyLinked ==
    (/\ cmd.op = "link" /\ Listed
     /\ cmd.database \in Holders(before, cmd.app, cmd.label)) =>
        /\ ~result.ok /\ result.kind = "AlreadyLinked"
        /\ Mutations(trace) = << >>
        /\ databases = before

C3_Witness ==
    /\ cmd.op = "link" /\ Listed
    /\ cmd.database \in Holders(before, cmd.app, cmd.label)
    /\ result.kind = "AlreadyLinked"

\* C4: a direct link whose relink confirmation is answered no, or cancelled,
\* issues no mutation call, leaves every database's links unchanged, reports
\* that the link was not updated and returns success.
C4_RelinkDeclined ==
    (cmd.op = "link" /\ cmd.answer \in {"no", "cancel"}) =>
        /\ result = Ok("NotUpdated", << >>)
        /\ Mutations(trace) = << >>
        /\ databases = before

C4_Witness ==
    /\ cmd.op = "link" /\ cmd.answer = "cancel"
    /\ Holders(before, cmd.app, cmd.label) \ {cmd.database} # {}
    /\ result.kind = "NotUpdated"

\* C5: a confirmed relink, when another database holds the link of
\* (application, label), issues exactly two mutation calls: remove-link of
\* that link on the database holding it, then create-link on the target.
C5_RelinkRemoveThenCreate ==
    (/\ cmd.op = "link" /\ cmd.answer = "yes" /\ NoCallFailed
     /\ Holders(before, cmd.app, cmd.label) \ {cmd.database} # {}) =>
        LET m == Mutations(trace)
        IN  /\ Len(m) = 2
            /\ m[1].op = "remove_database_link"
            /\ m[1].db \in Holders(before, cmd.app, cmd.label)
            /\ m[1].rl.app_id = cmd.app /\ m[1].rl.label = cmd.label
            /\ m[2].op = "create_database_link"
            /\ m[2].db = cmd.database
            /\ m[2].rl.app_id = cmd.app /\ m[2].rl.label = cmd.label

\* C6: a direct link whose target exists, when no database holds a link of
\* this application with this label, issues exactly one mutation call, a
\* create-link on the target with ResourceLabel {app id, label, no name},
\* shows no prompt and succeeds.
C6_LinkNoConflict ==
    (/\ cmd.op = "link" /\ NoCallFailed /\ DbExists(before, cmd.database)
     /\ Holders(before, cmd.app, cmd.label) = {}) =>
        /\ result.ok
        /\ ~Prompted(trace)
        /\ Mutations(trace) =
              << Entry("create_database_link", cmd.database,
                       ResourceLabel(cmd.app, cmd.label, NoName), TRUE, Nil) >>

\* C7: an unlink, when no listed database has a link with this application
\* name and this label, fails with NotFound naming the application and the
\* label and issues no mutation call.
C7_UnlinkNotFound ==
    (/\ cmd.op = "unlink" /\ Listed
     /\ \A i \in 1..Len(before) : ~database_has_link(before[i], cmd.label, cmd.app)) =>
        /\ result = Err("NotFound", << cmd.app, cmd.label >>)
        /\ Mutations(trace) = << >>
        /\ databases = before

C7_Witness ==
    /\ cmd.op = "unlink" /\ Listed
    /\ \E i \in 1..Len(before) : HoldsLink(before[i], cmd.app, "logs")
    /\ \E i \in 1..Len(before) : HoldsLink(before[i], "other", cmd.label)
    /\ cmd.app = "app" /\ cmd.label = "email"
    /\ result.kind = "NotFound"

\* C8: registering a label that is already registered fails with
\* DuplicateDeclaration and leaves the mapping as it was, the label still
\* mapped to the database of its first registration.
C8_DuplicateDeclaration ==
    [][(cmd'.op = "set_label_action" /\ cmd'.label \in DOMAIN labels_to_dbs) =>
          /\ ~result'.ok /\ result'.kind = "DuplicateDeclaration"
          /\ labels_to_dbs' = labels_to_dbs]_vars

C8_Witness ==
    /\ cmd.op = "set_label_action"
    /\ result.kind = "DuplicateDeclaration"
    /\ cmd.label \in DOMAIN labels_to_dbs
    /\ labels_to_dbs[cmd.label] # cmd.database

\* C9: resolving a label that was never registered fails with
\* MissingDeclaration, whatever the candidate databases.
C9_MissingDeclaration ==
    (cmd.op = "resolve" /\ cmd.label \notin DOMAIN labels_to_dbs) =>
        result = Err("MissingDeclaration", << cmd.label >>)

C9_Witness ==
    /\ cmd.op = "resolve" /\ cmd.label \notin DOMAIN labels_to_dbs
    /\ DOMAIN labels_to_dbs # {}
    /\ databases # << >>
    /\ result.kind = "MissingDeclaration"

\* C10: resolving a registered label yields Existing(mapped name) exactly
\* when the mapped name is the name of a candidate database and New(mapped
\* name) otherwise, whatever the application and the candidates' links.
C10_ExistingIffCandidate ==
    (cmd.op = "resolve" /\ cmd.label \in DOMAIN labels_to_dbs) =>
        LET name == labels_to_dbs[cmd.label]
        IN  result = IF \E i \in 1..Len(databases) : databases[i].name = name
                     THEN Ok("Existing", << name >>)
                     ELSE Ok("New", << name >>)

C10_WitnessExisting ==
    /\ cmd.op = "resolve" /\ cmd.label \in DOMAIN labels_to_dbs
    /\ result.kind = "Existing"
    /\ Len(databases) = 2
    /\ result.value = << databases[2].name >>
    /\ databases[2].links # << >>

\* ------------------------------------------------------- name generation
\* The name is the name of a database the account can see.
Visible(name) == \E i \in 1..Len(databases) : databases[i].name = name

\* C11: a name generate_unique returns is not a taken name, so the default
\* offered by the create-new path is never the name of a visible database
\* (and the name Input never starts from a default that is taken).
C11_GeneratedNameNotTaken ==
    cmd.op = "create_new" =>
        /\ trace[1].out = "returned" => ~Visible(trace[1].db)
        /\ result.kind # "Impossible"
        /\ (result.kind = "New" /\ Visible(result.value[1])) =>
              result.value[1] # trace[1].db

\* Candidates were rejected before one was returned and accepted as offered.
C11_Witness ==
    /\ cmd.op = "create_new" /\ attempts > 1 /\ databases # << >>
    /\ trace[1].out = "returned"
    /\ result = Ok("New", << trace[1].db >>)

\* C12: generate_unique draws at most NAME_GENERATION_MAX_ATTEMPTS (100)
\* candidates; having drawn that many taken names it fails, and the
\* create-new path then returns the error GenerationExhausted: no name, no
\* cancellation, no further attempt.
C12_GenerationBounded ==
    cmd.op = "create_new" =>
        /\ attempts <= 100
        /\ trace[1].out = "generating" => attempts < 100
        /\ trace[1].out = "exhausted" =>
              /\ attempts = 100
              /\ result \in {Ok("Pending", << >>),
                             Err("GenerationExhausted", << cmd.label >>)}
        /\ result.kind = "GenerationExhausted" => trace[1].out = "exhausted"

\* One hundred taken names were drawn and the path failed.
C12_Witness ==
    /\ cmd.op = "create_new" /\ attempts = 100
    /\ trace[1].out = "exhausted"
    /\ result = Err("GenerationExhausted", << cmd.label >>)

\* ------------------------------------------------------------ the deploys
\* The resolutions of a log, in order: what the strategy returned, label by
\* label.
Resolutions(tr) == SelectSeq(tr, LAMBDA x : x.op = "resolve")

Range(seq) == {seq[i] : i \in 1..Len(seq)}

Aborted(tr) == \E i \in 1..Len(tr) : tr[i].op = "resolve" /\ tr[i].out = "Cancelled"

\* C13: a provisioning in which the strategy returns New for every label
\* (and no call fails) issues exactly one create_database per label, in the
\* order the labels are processed, each without a ResourceLabel, and returns
\* exactly the pairs (database name, label) in that order.
C13_ProvisionCreateNew ==
    LET res == Resolutions(trace)
        n == Len(cmd.labels)
    IN  (/\ cmd.op = "provision" /\ NoCallFailed /\ Len(res) = n
         /\ \A k \in 1..n : res[k].out = "New") =>
            /\ \A k \in 1..n : res[k].rl.label = cmd.labels[k]
            /\ Mutations(trace) =
                  [k \in 1..n |-> Entry("create_database", res[k].db, NoRL, TRUE, Nil)]
            /\ result = Ok("Some", [k \in 1..n |-> << res[k].db, cmd.labels[k] >>])

\* Two labels, two databases created, two pairs returned.
C13_Witness ==
    /\ cmd.op = "provision" /\ cmd.strategy = "interactive"
    /\ Len(cmd.labels) = 2 /\ Len(Mutations(trace)) = 2
    /\ result.ok /\ result.kind = "Some" /\ Len(result.value) = 2
    /\ Len(databases) = Len(before) + 2

\* C14: a provisioning in which the strategy returns Cancelled at a label
\* stops there: no later label is listed or resolved, the result is the
\* non-error value None (no pair list), and nothing is undone: every call
\* made was a successful create_database and the catalog is the one before
\* followed by the databases created.
C14_ProvisionAborted ==
    (cmd.op = "provision" /\ Aborted(trace)) =>
        LET m == Mutations(trace)
        IN  /\ trace[Len(trace)].out = "Cancelled"
            /\ \A i \in 1..(Len(trace) - 1) : trace[i].out # "Cancelled"
            /\ result = Ok("None", << >>)
            /\ \A j \in 1..Len(m) : m[j].op = "create_database" /\ m[j].ok
            /\ databases = before \o [j \in 1..Len(m) |-> Database(m[j].db, << >>)]

\* The first label created a database, the second was cancelled.
C14_Witness ==
    /\ cmd.op = "provision" /\ Len(cmd.labels) = 2 /\ Aborted(trace)
    /\ Len(Mutations(trace)) = 1
    /\ Len(databases) = Len(before) + 1
    /\ result = Ok("None", << >>)

\* C15: in a provisioning a label resolved as Existing causes no catalog
\* mutation: what follows its resolution is the listing for the next label
\* or the return, its pair is in the returned list, and the provisioning
\* never issues create_database_link or remove_database_link; the only
\* mutations are the create_database calls of the labels resolved as New.
C15_ProvisionUseExisting ==
    cmd.op = "provision" =>
        /\ \A i \in 1..Len(trace) :
              /\ trace[i].op \notin {"create_database_link", "remove_database_link"}
              /\ trace[i].op = "create_database" =>
                    i > 1 /\ trace[i - 1].op = "resolve" /\ trace[i - 1].out = "New"
              /\ (trace[i].op = "resolve" /\ trace[i].out = "Existing") =>
                    /\ i < Len(trace) => trace[i + 1].op = "get_databases"
                    /\ (result.ok /\ result.kind = "Some") =>
                          << trace[i].db, trace[i].rl.label >> \in Range(result.value)
        /\ (\A i \in 1..Len(trace) : trace[i].out # "New") => databases = before

\* Two labels resolved as Existing: two pairs and an untouched catalog.
C15_Witness ==
    /\ cmd.op = "provision" /\ Len(cmd.labels) = 2
    /\ Len(Resolutions(trace)) = 2
    /\ \A k \in 1..2 : Resolutions(trace)[k].out = "Existing"
    /\ result.ok /\ Len(result.value) = 2
    /\ databases = before /\ databases # << >>

\* The database of that name in the catalog.
DbNamed(dbs, name) == dbs[Min(DbIndex(dbs, name))]

Listings(tr) == SelectSeq(tr, LAMBDA x : x.op = "get_databases")

\* The catalog only grew: every database is where it was, with the links it
\* had in front of its links.
Kept(old, new) ==
    /\ Len(old) <= Len(new)
    /\ \A i \in 1..Len(old) :
          /\ new[i].name = old[i].name
          /\ Len(old[i].links) <= Len(new[i].links)
          /\ SubSeq(new[i].links, 1, Len(old[i].links)) = old[i].links

\* C16: in a reconcile a label whose link of (application, label) exists on
\* a visible database is a no-op: the strategy is not invoked for it and no
\* mutation is issued for it; the pass goes on with the next label, so that
\* a pass in which nothing fails and nothing is cancelled lists the
\* databases once per label and returns Some.
C16_ReconcileAlreadyLinked ==
    cmd.op = "reconcile" =>
        /\ \A k \in 1..Len(cmd.labels) :
              Holders(before, cmd.app, cmd.labels[k]) # {} =>
                  /\ ~Asked(trace, cmd.labels[k])
                  /\ \A i \in 1..Len(trace) :
                        trace[i].op \in MutationOps =>
                            trace[i].rl.label # cmd.labels[k]
        /\ (/\ NoCallFailed
            /\ \A i \in 1..Len(trace) :
                  trace[i].op = "resolve" => trace[i].out \in {"New", "Existing"}) =>
                /\ result = Ok("Some", << >>)
                /\ Len(Listings(trace)) = Len(cmd.labels)

\* The first label is linked already, the second is resolved and linked.
C16_Witness ==
    /\ cmd.op = "reconcile" /\ Len(cmd.labels) = 2
    /\ Holders(before, cmd.app, cmd.labels[1]) # {}
    /\ Len(Resolutions(trace)) = 1 /\ Asked(trace, cmd.labels[2])
    /\ Len(Mutations(trace)) = 1
    /\ result = Ok("Some", << >>)

\* C17: in a reconcile every label resolved as New or Existing gets exactly
\* one mutation call, issued right after its resolution: for New a
\* create_database of the chosen name carrying ResourceLabel {application
\* id, label, application name}, for Existing a create_database_link on the
\* named database with that ResourceLabel; no other mutation is issued.
C17_ReconcileOneMutation ==
    cmd.op = "reconcile" =>
        /\ \A i \in 1..Len(trace) :
              (trace[i].op = "resolve" /\ trace[i].out \in {"New", "Existing"}) =>
                  /\ i < Len(trace)
                  /\ trace[i + 1].op =
                        (IF trace[i].out = "New" THEN "create_database"
                         ELSE "create_database_link")
                  /\ trace[i + 1].db = trace[i].db
                  /\ trace[i + 1].rl =
                        ResourceLabel(cmd.app, trace[i].rl.label, cmd.app)
                  /\ Cardinality({j \in 1..Len(trace) :
                        /\ trace[j].op \in MutationOps
                        /\ trace[j].rl.label = trace[i].rl.label}) = 1
        /\ \A j \in 1..Len(trace) :
              trace[j].op \in MutationOps =>
                  /\ j > 1 /\ trace[j - 1].op = "resolve"
                  /\ trace[j - 1].out \in {"New", "Existing"}

\* One label created with its link, the other linked to a database there was.
C17_Witness ==
    /\ cmd.op = "reconcile" /\ Len(cmd.labels) = 2 /\ result.ok
    /\ {Resolutions(trace)[k].out : k \in 1..Len(Resolutions(trace))} = {"New", "Existing"}
    /\ {Mutations(trace)[k].op : k \in 1..Len(Mutations(trace))} =
          {"create_database", "create_database_link"}

\* C18: a reconcile in which the strategy returns Cancelled at a label stops
\* there: nothing is listed, resolved or mutated after it, the result is the
\* non-error value None, and what the earlier labels created remains: every
\* call made was a successful create_database or create_database_link, its
\* link is in the catalog, and nothing the catalog held before is gone.
C18_ReconcileAborted ==
    (cmd.op = "reconcile" /\ Aborted(trace)) =>
        LET m == Mutations(trace)
        IN  /\ trace[Len(trace)].out = "Cancelled"
            /\ \A i \in 1..(Len(trace) - 1) : trace[i].out # "Cancelled"
            /\ result = Ok("None", << >>)
            /\ \A j \in 1..Len(m) :
                  /\ m[j].op \in {"create_database", "create_database_link"}
                  /\ m[j].ok
                  /\ DbExists(databases, m[j].db)
                  /\ HoldsLink(DbNamed(databases, m[j].db), cmd.app, m[j].rl.label)
            /\ Kept(before, databases)

\* The first label was linked, the second was cancelled.
C18_Witness ==
    /\ cmd.op = "reconcile" /\ Len(cmd.labels) = 2 /\ Aborted(trace)
    /\ Len(Mutations(trace)) = 1
    /\ Holders(before, cmd.app, cmd.labels[1]) = {}
    /\ Holders(databases, cmd.app, cmd.labels[1]) # {}
    /\ result = Ok("None", << >>)

\* C19: a batch link issues its create_database_link calls one per pair, in
\* the order of the list, each with ResourceLabel {application id, the
\* pair's label, application name}; every call before the last one made
\* succeeded; the batch succeeds when all calls did, and at the first
\* failing call it ends with an error naming the database and the
\* application, with no call for a later pair, and the links of the earlier
\* pairs remain.
C19_BatchLinkInOrder ==
    cmd.op = "link_databases" =>
        LET n == Len(trace)
            pairs == cmd.labels
        IN  /\ n <= Len(pairs)
            /\ \A k \in 1..n :
                  /\ trace[k].op = "create_database_link"
                  /\ trace[k].db = pairs[k][1]
                  /\ trace[k].rl = ResourceLabel(cmd.app, pairs[k][2], cmd.app)
                  /\ k < n => trace[k].ok
                  /\ trace[k].ok =>
                        /\ DbExists(databases, pairs[k][1])
                        /\ HoldsLink(DbNamed(databases, pairs[k][1]), cmd.app,
                                     pairs[k][2])
            /\ result.ok = (n = Len(pairs) /\ NoCallFailed)
            /\ ~result.ok =>
                  result = Err("Upstream", << "create_database_link",
                                             pairs[n][1], cmd.app >>)
            /\ Kept(before, databases)

\* The first pair was linked, the second failed.
C19_Witness ==
    /\ cmd.op = "link_databases" /\ Len(cmd.labels) = 2 /\ Len(trace) = 2
    /\ trace[1].ok /\ ~trace[2].ok /\ ~result.ok
    /\ HoldsLink(DbNamed(databases, cmd.labels[1][1]), cmd.app, cmd.labels[1][2])
    /\ ~HoldsLink(DbNamed(before, cmd.labels[1][1]), cmd.app, cmd.labels[1][2])

\* C20: the already-linked check of a reconcile is true exactly when some
\* visible database holds a link of this application with this label: with
\* no such link the label is resolved, whatever links other applications
\* hold with the same label, and with such a link it is not.
C20_AlreadyLinkedCheck ==
    (cmd.op = "reconcile" /\ Len(cmd.labels) = 1 /\ Listed) =>
        LET label == cmd.labels[1]
            linked == Holders(before, cmd.app, label) # {}
        IN  /\ AlreadyLinked(before, ResourceLabel(cmd.app, label, cmd.app)) = linked
            /\ Asked(trace, label) = ~linked

\* Another application holds a link with the label, this one does not, and
\* the label was resolved.
C20_WitnessOtherApp ==
    /\ cmd.op = "reconcile" /\ Len(cmd.labels) = 1 /\ Listed
    /\ \E o \in Apps \ {cmd.app} : Holders(before, o, cmd.labels[1]) # {}
    /\ Holders(before, cmd.app, cmd.labels[1]) = {}
    /\ Asked(trace, cmd.labels[1])

\* ------------------------------------------------------- sqlite create
\* C21: a create whose name is the name of a listed database fails with the
\* already-exists error naming it and issues no create_database call;
\* otherwise it issues exactly one create_database call, with that name and
\* no ResourceLabel, and when that call succeeds the database is in the
\* catalog, without links.
C21_CreateChecksListing ==
    (cmd.op = "create" /\ Listed) =>
        IF DbExists(before, cmd.database)
        THEN /\ result = Err("AlreadyExists", << cmd.database >>)
             /\ Mutations(trace) = << >>
             /\ databases = before
        ELSE /\ Len(Mutations(trace)) = 1
             /\ Mutations(trace)[1].op = "create_database"
             /\ Mutations(trace)[1].db = cmd.database
             /\ Mutations(trace)[1].rl = NoRL
             /\ result.ok = Mutations(trace)[1].ok
             /\ databases = IF result.ok
                            THEN Append(before, Database(cmd.database, << >>))
                            ELSE before

\* The name of the second of two databases is asked for again.
C21_Witness ==
    /\ cmd.op = "create" /\ Listed /\ Len(before) = 2
    /\ cmd.database = before[2].name
    /\ result.kind = "AlreadyExists"

\* ------------------------------------------------------- direct link
\* C22: a direct link fails with AlreadyLinked only if the target database
\* holds a link of this application with this label: a link of another
\* application with the label on the target does not cause it.
C22_AlreadyLinkedOnlyOwnLink ==
    (cmd.op = "link" /\ result.kind = "AlreadyLinked") =>
        cmd.database \in Holders(before, cmd.app, cmd.label)

\* C23: a direct link shows the relink confirmation only when a database
\* other than the target holds the link of this application with this
\* label, the link it removes is that link, and the links of every other
\* application are after the invocation what they were before it.
C23_LinkTouchesOwnLinksOnly ==
    cmd.op = "link" =>
        /\ Prompted(trace) =>
              Holders(before, cmd.app, cmd.label) \ {cmd.database} # {}
        /\ \A i \in 1..Len(trace) :
              trace[i].op = "remove_database_link" =>
                  /\ trace[i].rl.app_id = cmd.app
                  /\ trace[i].rl.label = cmd.label
                  /\ trace[i].db \in Holders(before, cmd.app, cmd.label)
        /\ \A o \in Apps \ {cmd.app}, l \in Labels :
              Holders(databases, o, l) = Holders(before, o, l)

\* C24: in a confirmed relink whose remove-link succeeds and whose
\* create-link fails, the invocation ends with an error, no database holds
\* the link of (application, label) any more, and the failed create-link is
\* the last call: nothing restores the old link.
C24_RelinkNotAtomic ==
    LET m == Mutations(trace)
    IN  (/\ cmd.op = "link" /\ cmd.answer = "yes"
         /\ Holders(before, cmd.app, cmd.label) \ {cmd.database} # {}
         /\ Len(m) = 2
         /\ m[1].op = "remove_database_link" /\ m[1].ok
         /\ m[2].op = "create_database_link" /\ ~m[2].ok) =>
            /\ ~result.ok
            /\ trace[Len(trace)] = m[2]
            /\ Holders(databases, cmd.app, cmd.label) = {}

\* C25: the link of an (application, label) pair that was bound moves to a
\* database it was not bound to only in a confirmed relink of that pair:
\* the invocation is a direct link of the pair answered yes, its calls are
\* the remove-link of the pair's link on the old database, after which the
\* pair is bound to no database, and then the create-link on the target; no
\* unlink, reconcile or other link rebinds a bound pair.
C25_RebindOnlyByRelink ==
    \A app \in Apps, label \in Labels :
        LET old == Holders(before, app, label)
            new == Holders(databases, app, label)
            m == Mutations(trace)
        IN  (cmd.op \in {"link", "unlink", "reconcile"} /\ old # {} /\ new \ old # {}) =>
                /\ cmd.op = "link" /\ cmd.answer = "yes"
                /\ cmd.app = app /\ cmd.label = label
                /\ Len(m) = 2
                /\ m[1].op = "remove_database_link" /\ m[1].ok
                /\ m[1].rl.app_id = app /\ m[1].rl.label = label
                /\ old = {m[1].db}
                /\ m[2].op = "create_database_link" /\ m[2].ok
                /\ new = {m[2].db}

\* ------------------------------------------------------ every workflow
\* C26: in a direct link, an unlink, a provisioning, a reconcile and a batch
\* link a failed catalog call is the last event of the invocation, which
\* ends with an error: the call is not issued again and no call follows it.
\* In a confirmed relink whose remove-link fails no create-link is issued
\* and the catalog is what it was.
C26_FailStop ==
    /\ \A i \in 1..Len(trace) :
          (trace[i].op \in CatalogOps /\ ~trace[i].ok) =>
              i = Len(trace) /\ ~result.ok
    /\ (/\ cmd.op = "link" /\ cmd.answer = "yes"
        /\ \E i \in 1..Len(trace) :
              trace[i].op = "remove_database_link" /\ ~trace[i].ok) =>
            /\ \A i \in 1..Len(trace) : trace[i].op # "create_database_link"
            /\ databases = before

\* The remove-link of a confirmed relink failed.
C26_Witness ==
    /\ cmd.op = "link" /\ cmd.answer = "yes" /\ Len(trace) = 3
    /\ trace[3].op = "remove_database_link" /\ ~trace[3].ok
    /\ ~result.ok /\ databases = before
    /\ Holders(before, cmd.app, cmd.label) # {}

\* ------------------------------------------------- the order of the labels
\* The labels of a log in the order they were resolved.
LabelOrder(tr) == [k \in 1..Len(Resolutions(tr)) |-> Resolutions(tr)[k].rl.label]

\* C27: two runs of a provisioning or of a reconcile with the same label
\* set, on the same catalog and with the same strategy resolve the labels in
\* the same order, issue the same catalog calls in the same order and return
\* the same pairs in the same order.
C27_DeterministicOrder ==
    rerun # None =>
        /\ LabelOrder(rerun[1].trace) = LabelOrder(trace)
        /\ Mutations(rerun[1].trace) = Mutations(trace)
        /\ rerun[1].result = result

\* ------------------------------------------------ the Interactive strategy
\* The operator cancelled a prompt of the resolution.
CancelGesture(a) == a.choice = "cancel" \/ a.pick = "cancel" \/ a.text = "cancel"

\* C28: an interactive resolution in which the operator cancels a prompt,
\* the two-option choice, the list of existing databases or the name Input
\* of the create-new path, yields the selection Cancelled: not an error and
\* not New.
C28_CancelIsAborted ==
    (cmd.op = "resolve" /\ cmd.strategy = "interactive"
     /\ CancelGesture(cmd.answers[1])) =>
        result = Ok("Cancelled", << Nil >>)

\* ----------------------------------------- link invocations side by side
\* No database of the listing has a link with the label.
NoLinkLabelled(listing, label) ==
    \A i \in 1..Len(listing) : \A j \in 1..Len(listing[i].links) :
        listing[i].links[j].label # label

\* C29: the check of a direct link (the listing) and its mutation are
\* separate calls and nothing ties them together: an invocation whose
\* listing shows its target and no link with its label issues its
\* create-link, without a prompt, whatever another invocation did to the
\* catalog in between. Two invocations for one (application, label) pair
\* and different databases can therefore both see no link and both create
\* one.
C29_NoCoordination ==
    \A p \in Procs :
        LET q == procs[p]
        IN  (/\ q.pc = "done"
             /\ DbExists(q.listing, q.cmd.database)
             /\ NoLinkLabelled(q.listing, q.cmd.label)) =>
                q.trace = << Entry("get_databases", Nil, NoRL, TRUE, Nil),
                             Entry("create_database_link", q.cmd.database,
                                   ResourceLabel(q.cmd.app, q.cmd.label, NoName),
                                   q.result.ok, Nil) >>

\* Both invocations saw no link of the pair, both created one, and the pair
\* is linked to two databases.
C29_Witness ==
    /\ \A p \in Procs :
          /\ procs[p].pc = "done" /\ procs[p].result = Ok("Linked", << >>)
          /\ Holders(procs[p].listing, procs[p].cmd.app, procs[p].cmd.label) = {}
          /\ Len(procs[p].trace) = 2
          /\ procs[p].trace[2].op = "create_database_link" /\ procs[p].trace[2].ok
    /\ procs[1].cmd.app = procs[2].cmd.app
    /\ procs[1].cmd.label = procs[2].cmd.label
    /\ procs[1].cmd.database # procs[2].cmd.database
    /\ Holders(databases, procs[1].cmd.app, procs[1].cmd.label) =
          {procs[1].cmd.database, procs[2].cmd.database}

\* ------------------------------------------------- one label at a time
\* C30: a provisioning lists the catalog before each resolution, so that a
\* database created for an earlier label is a candidate for the later ones:
\* with a Scripted strategy mapping two labels to one name that no database
\* has, and no transport error, the first label is resolved as New and the
\* second as Existing, exactly one create_database is issued for the name,
\* and both pairs (name, label) are returned.
C30_CreatedIsCandidate ==
    cmd.op = "provision" =>
        /\ \A i \in 1..Len(trace) :
              trace[i].op = "resolve" =>
                  i > 1 /\ trace[i - 1].op = "get_databases" /\ trace[i - 1].ok
        /\ (/\ cmd.strategy = "scripted" /\ cmd.failAt = 0 /\ Len(cmd.labels) = 2
            /\ DOMAIN labels_to_dbs = {cmd.labels[1], cmd.labels[2]}
            /\ labels_to_dbs[cmd.labels[1]] = labels_to_dbs[cmd.labels[2]]
            /\ ~DbExists(before, labels_to_dbs[cmd.labels[1]])) =>
                LET name == labels_to_dbs[cmd.labels[1]]
                IN  /\ Len(Resolutions(trace)) = 2
                    /\ Resolutions(trace)[1].out = "New"
                    /\ Resolutions(trace)[2].out = "Existing"
                    /\ Mutations(trace) =
                          << Entry("create_database", name, NoRL, TRUE, Nil) >>
                    /\ result = Ok("Some", << << name, cmd.labels[1] >>,
                                              << name, cmd.labels[2] >> >>)
                    /\ databases = Append(before, Database(name, << >>))

\* Two labels mapped to the name of a database that a database there was
\* does not have.
C30_Witness ==
    /\ cmd.op = "provision" /\ cmd.strategy = "scripted" /\ cmd.failAt = 0
    /\ Len(cmd.labels) = 2 /\ DOMAIN labels_to_dbs = {cmd.labels[1], cmd.labels[2]}
    /\ labels_to_dbs[cmd.labels[1]] = labels_to_dbs[cmd.labels[2]]
    /\ before # << >> /\ Len(databases) = Len(before) + 1
    /\ result.ok /\ Len(result.value) = 2

\* ------------------------------------------------- link, then unlink
\* The databases holding the link of (app, label) that a direct link
\* submitted: the ResourceLabel {app id, label, no name}, listed as it was
\* submitted.
DirectlyLinked(dbs, app, label) ==
    {dbs[i].name : i \in {k \in 1..Len(dbs) :
        \E j \in 1..Len(dbs[k].links) :
            dbs[k].links[j] = ResourceLabel(app, label, NoName)}}

\* C31: with a catalog that lists each ResourceLabel as it was submitted, an
\* unlink of (application, label) after a successful direct link of that
\* pair finds the link: when no call fails it succeeds, its one mutation is
\* the remove-link of that ResourceLabel on the database holding it, and the
\* pair is linked to no database afterwards.
C31_LinkUnlinkRoundTrip ==
    (/\ cmd.op = "unlink" /\ NoCallFailed
     /\ Holders(before, cmd.app, cmd.label) # {}
     /\ DirectlyLinked(before, cmd.app, cmd.label) =
           Holders(before, cmd.app, cmd.label)) =>
        /\ result = Ok("Unlinked", << >>)
        /\ Len(Mutations(trace)) = 1
        /\ Mutations(trace)[1].op = "remove_database_link"
        /\ Mutations(trace)[1].db \in DirectlyLinked(before, cmd.app, cmd.label)
        /\ Mutations(trace)[1].rl = ResourceLabel(cmd.app, cmd.label, NoName)
        /\ Cardinality(Holders(before, cmd.app, cmd.label)) = 1 =>
              Holders(databases, cmd.app, cmd.label) = {}

\* ------------------------------------------------- sqlite list --group-by
\* C32: parsing the text a GroupBy value is written out as yields that value
\* again, for App and for Database; in particular from_str("database") is
\* Database, however the text is padded or capitalised.
C32_GroupByRoundTrip ==
    /\ cmd.op = "round_trip" => result = Ok("GroupBy", << cmd.value >>)
    /\ (cmd.op = "from_str" /\ to_lowercase(trim(cmd.text)) = DatabaseText) =>
          result = Ok("GroupBy", << "Database" >>)

====
